---------------------------- MODULE Spec2Model ----------------------------
(***************************************************************************)
(* Model of src/main.py: the Flask handler check_play_time_allowance and   *)
(* its helpers get_toggl_data, parse_toggl_datetime and calculate_duration.*)
(*                                                                         *)
(* Time.  An instant is an integer number of seconds since an epoch that   *)
(* is a Monday 00:00:00 UTC.  An aware datetime, as datetime.now(tz) and   *)
(* datetime.fromisoformat build it, is a record [wall, off]: the wall-clock*)
(* reading in seconds and the fixed UTC offset of its tzinfo.  With pytz   *)
(* the tzinfo attached by datetime.now(tz) is the fixed-offset instance in *)
(* force at that instant; replace() and timedelta arithmetic change the    *)
(* wall-clock reading only and keep that tzinfo.                           *)
(*                                                                         *)
(* Minutes.  The code divides seconds by 60 and multiplies by 0.5 in       *)
(* floating point.  Minute quantities are carried here as exact integers   *)
(* in units of 1/120 minute, in which both operations are exact; binary    *)
(* rounding and sub-second durations are not modelled.                     *)
(***************************************************************************)
EXTENDS Integers, Sequences, FiniteSets, TLC

VARIABLES
    pc,                       \* position of the handler
    env_secret,               \* os.environ.get("FUNCTION_SECRET")
    request,                  \* the inbound request: header and query argument
    requested_play_time_min,  \* main.py:116
    now_utc,                  \* main.py:138
    user_tz,                  \* main.py:129 (timezone name)
    today_4am_utc,            \* main.py:147
    start_of_week_utc,        \* main.py:148
    todays_entries,           \* main.py:166-170
    weekly_entries,           \* main.py:198-202
    todays_focus_sec,         \* main.py:173-178
    total_focus_sec,          \* main.py:205-211
    total_play_sec,           \* main.py:206-213
    response,                 \* what the handler returns
    fetch_log,                \* the outbound requests made, in order
    gate1,                    \* outcome of the daily gate: "none", "denied", "passed"
    substituted,              \* a non-list payload was replaced by [] (main.py:168-170, 200-202)
    entry,                    \* argument of calculate_duration (resolver runs)
    duration                  \* result of calculate_duration (resolver runs)

vars == <<pc, env_secret, request, requested_play_time_min, now_utc, user_tz,
          today_4am_utc, start_of_week_utc, todays_entries, weekly_entries,
          todays_focus_sec, total_focus_sec, total_play_sec, response,
          fetch_log, gate1, substituted, entry, duration>>

---------------------------------------------------------------------------
(* Bounds of the model *)

\* longest entry list an entries fetch returns
MaxEntries == 2
\* number of days after the first one over which the window runs draw "now"
MaxDays == 7

---------------------------------------------------------------------------
(* Program constants *)

\* main.py:183  if todays_focus_duration_min < 90
FocusGateMin == 90
\* main.py:140-141  replace(hour=4, ...), time(4, 0)
BoundaryHour == 4
\* main.py:180, 215, 216  seconds / 60
SecPerMin == 60
\* main.py:221  total_focus_min * 0.5, as a divisor
HalfDivisor == 2

FocusLabel == "focus"      \* main.py:176, 210: the focus tag literal
PlayLabel  == "play"       \* main.py:212: the play tag literal

Hour == 60 * 60
Day  == 24 * Hour
\* minute quantities are integers in units of 1/MinUnit minute
MinUnit == SecPerMin * HalfDivisor

Max(a, b) == IF a >= b THEN a ELSE b

---------------------------------------------------------------------------
(* pytz zones.  Each known zone has the offset in force before and from    *)
(* the instant "at"; the fixed zones have the same offset on both sides.   *)
(* The two daylight-saving zones switch on the Sunday of the second week:  *)
(* New York 02:00 EST -> 03:00 EDT, Berlin 03:00 CEST -> 02:00 CET.        *)

SwitchDay == 2 * 7 - 1

ZoneNames == {"UTC", "Asia/Shanghai", "America/New_York", "Europe/Berlin"}

ZoneInfo(name) ==
    CASE name = "UTC"              -> [before |-> 0, after |-> 0, at |-> 0]
      [] name = "Asia/Shanghai"    -> [before |-> 8 * Hour, after |-> 8 * Hour, at |-> 0]
      [] name = "America/New_York" -> [before |-> -5 * Hour, after |-> -4 * Hour,
                                       at |-> SwitchDay * Day + 7 * Hour]
      [] name = "Europe/Berlin"    -> [before |-> 2 * Hour, after |-> 1 * Hour,
                                       at |-> SwitchDay * Day + 1 * Hour]

\* the UTC offset the zone has at UTC instant u
OffsetAt(name, u) ==
    IF u < ZoneInfo(name).at THEN ZoneInfo(name).before ELSE ZoneInfo(name).after

\* datetime.now(user_tz): the wall clock and the fixed offset in force now
DatetimeNow(name, u) == [wall |-> u + OffsetAt(name, u), off |-> OffsetAt(name, u)]

\* dt.astimezone(pytz.utc), as an instant
AsUtc(dt) == dt.wall - dt.off

\* dt.replace(hour=h, minute=0, second=0, microsecond=0): tzinfo is kept
ReplaceHour(dt, h) == [dt EXCEPT !.wall = (dt.wall \div Day) * Day + h * Hour]

\* dt - timedelta(days=n): wall-clock arithmetic, tzinfo is kept
MinusDays(dt, n) == [dt EXCEPT !.wall = dt.wall - n * Day]

\* dt.time() as seconds since local midnight; dt.weekday() with Monday = 0
TimeOfDay(dt) == dt.wall % Day
Weekday(dt)   == (dt.wall \div Day) % 7

\* main.py:140-142
Today4amLocal(now_local) ==
    LET today_4am_local == ReplaceHour(now_local, BoundaryHour)
    IN  IF TimeOfDay(now_local) < BoundaryHour * Hour
        THEN MinusDays(today_4am_local, 1)
        ELSE today_4am_local

\* main.py:144-145
StartOfWeekLocal(now_local) ==
    ReplaceHour(MinusDays(now_local, Weekday(now_local)), 0)

---------------------------------------------------------------------------
(* Time entries.  An entry is a record holding the keys the JSON object    *)
(* has; a start value is [kind |-> "iso", wall, sfx] for an ISO-8601 text  *)
(* with wall-clock part wall and suffix sfx ("Z", a numeric offset, or ""  *)
(* for none), [kind |-> "garbage"] for a text fromisoformat rejects,       *)
(* [kind |-> "empty"] for "" and [kind |-> "null"] for JSON null.          *)

\* dict.get(key, default)
Get(d, key, default) == IF key \in DOMAIN d THEN d[key] ELSE default

NullStart == [kind |-> "null"]

\* the offset a numeric suffix denotes
SuffixOffset(sfx) ==
    CASE sfx = "+00:00" -> 0
      [] sfx = "+08:00" -> 8 * Hour
      [] sfx = "-05:00" -> -5 * Hour

\* main.py:64-78: [ok |-> FALSE] stands for None
parse_toggl_datetime(datetime_str) ==
    IF datetime_str.kind \in {"null", "empty"}
    THEN [ok |-> FALSE]
    ELSE IF datetime_str.kind = "garbage"
    THEN [ok |-> FALSE]
    ELSE LET sfx == IF datetime_str.sfx = "Z" THEN "+00:00" ELSE datetime_str.sfx
         IN  IF sfx = ""
             THEN [ok |-> TRUE, wall |-> datetime_str.wall, off |-> 0]
             ELSE [ok |-> TRUE, wall |-> datetime_str.wall, off |-> SuffixOffset(sfx)]

\* main.py:92 without the clamp
NoClamp(a, b) == b

\* main.py:92  max(0, duration)
Clamp(a, b) == Max(a, b)

\* main.py:80-92 (now is an aware instant, as the handler passes it)
calculate_duration(e, now) ==
    LET d0 == Get(e, "duration", 0)
        d1 == IF d0 < 0
              THEN LET start_time == parse_toggl_datetime(Get(e, "start", NullStart))
                   IN  IF start_time.ok THEN now - AsUtc(start_time) ELSE 0
              ELSE d0
    IN  Clamp(0, d1)

---------------------------------------------------------------------------
(* The inbound request and request.args.get('play_time', type=int) *)

Digits == <<"0", "1", "2", "3", "4", "5", "6", "7", "8", "9">>
IsDigit(c) == \E i \in 1..10 : Digits[i] = c
DigitVal(c) == (CHOOSE i \in 1..10 : Digits[i] = c) - 1

RECURSIVE DigitsValue(_)
DigitsValue(s) ==
    IF Len(s) = 0 THEN 0
    ELSE 10 * DigitsValue(SubSeq(s, 1, Len(s) - 1)) + DigitVal(s[Len(s)])

AllDigits(s) == Len(s) > 0 /\ \A i \in 1..Len(s) : IsDigit(s[i])

\* int(text): an optional sign and at least one digit, else ValueError
IntOf(text) ==
    IF AllDigits(text) THEN [ok |-> TRUE, val |-> DigitsValue(text)]
    ELSE IF Len(text) > 1 /\ text[1] \in {"-", "+"} /\ AllDigits(Tail(text))
    THEN [ok |-> TRUE,
          val |-> IF text[1] = "-" THEN 0 - DigitsValue(Tail(text))
                                   ELSE DigitsValue(Tail(text))]
    ELSE [ok |-> FALSE]

\* main.py:116: a missing key, or a text int() rejects, gives None ([ok |-> FALSE])
ArgsGetInt(args, key) ==
    IF key \in DOMAIN args THEN IntOf(args[key]) ELSE [ok |-> FALSE]

\* the query strings tried: none, play_time= , abc, 1.5, -5, 0, 50, 51
QueryArgs ==
    { [other |-> <<"1">>],
      [play_time |-> << >>],
      [play_time |-> <<"a", "b", "c">>],
      [play_time |-> <<"1", ".", "5">>],
      [play_time |-> <<"-", "5">>],
      [play_time |-> <<"0">>],
      [play_time |-> <<"5", "0">>],
      [play_time |-> <<"5", "1">>] }

\* values of the X-Function-Secret header ("" when absent) and of the
\* FUNCTION_SECRET environment variable ("" when unset)
HeaderSecrets == {"", "s3cret", "wrong"}
EnvSecrets == {"", "s3cret"}

---------------------------------------------------------------------------
(* get_toggl_data and the upstream's answers *)

\* what requests.get / raise_for_status / response.json() can do
FailureKinds == {"http_error", "request_exception", "unexpected"}

\* a fetch that swallows its failure and answers with no entries
get_toggl_data_swallowing(outcome) ==
    IF outcome.kind = "ok" THEN [raised |-> "", value |-> outcome.json]
    ELSE [raised |-> "", value |-> [type |-> "null"]]

\* main.py:42-61: the value returned, or the exception raised
get_toggl_data(outcome) ==
    IF outcome.kind = "ok" THEN [raised |-> "", value |-> outcome.json]
    ELSE IF outcome.kind \in {"http_error", "request_exception"}
    THEN [raised |-> "ConnectionError"]
    ELSE [raised |-> "ValueError"]

\* main.py:159, 191, 234
StatusOf(raised) == IF raised = "ConnectionError" THEN 502 ELSE 500

\* main.py:160, 192, 235
Failed(label, raised) ==
    [status |-> StatusOf(raised), body |-> [error |-> label, details |-> raised]]

NoResponse == [status |-> 0, body |-> [pending |-> TRUE]]

\* jsonify(...) with the default status 200
Ok(body) == [status |-> 200, body |-> body]

\* the /me answers tried
MePayloads ==
    { [type |-> "object", timezone |-> "Asia/Shanghai"],
      [type |-> "object", timezone |-> "America/New_York"],
      [type |-> "object", timezone |-> "Mars/Olympus"],
      [type |-> "object", timezone |-> ""],
      [type |-> "object"],
      [type |-> "null"] }

\* the instants datetime.now returns in the handler runs: a Wednesday,
\* 02:00:00 UTC and one second earlier
HandlerNows == {9 * Day + 2 * Hour, 9 * Day + 2 * Hour - 1}

RunningStart == [kind |-> "iso", wall |-> 9 * Day + 30 * SecPerMin, sfx |-> "Z"]

\* the entries the upstream holds
Pool ==
    << [tags |-> {FocusLabel}, duration |-> 45 * SecPerMin],
       [tags |-> {FocusLabel}, duration |-> 120 * SecPerMin],
       [tags |-> {FocusLabel}, duration |-> 600 * SecPerMin],
       [tags |-> {PlayLabel}, duration |-> 250 * SecPerMin],
       [tags |-> {FocusLabel}, duration |-> -1, start |-> RunningStart],
       [tags |-> {FocusLabel, PlayLabel}, duration |-> 10 * SecPerMin],
       [duration |-> 150 * SecPerMin] >>

\* entry lists of at most MaxEntries entries; the sums do not depend on the
\* order, so the lists are enumerated up to permutation
EntryLists ==
    LET idx == UNION { [1..n -> 1..Len(Pool)] : n \in 0..MaxEntries }
        sorted == { s \in idx : \A i \in 1..(Len(s) - 1) : s[i] <= s[i + 1] }
    IN  { [i \in 1..Len(s) |-> Pool[s[i]]] : s \in sorted }

\* the /me/time_entries answers tried
EntriesPayloads ==
    { [type |-> "list", items |-> l] : l \in EntryLists }
        \cup { [type |-> "null"], [type |-> "object"] }

Outcomes(payloads) ==
    { [kind |-> "ok", json |-> p] : p \in payloads }
        \cup { [kind |-> k] : k \in FailureKinds }

---------------------------------------------------------------------------
(* The two aggregation passes *)

\* main.py:173-178
RECURSIVE TodaysFocusSec(_, _)
TodaysFocusSec(entries, now) ==
    IF Len(entries) = 0 THEN 0
    ELSE LET e == Head(entries)
         IN  (IF FocusLabel \in Get(e, "tags", {})
              THEN calculate_duration(e, now) ELSE 0)
             + TodaysFocusSec(Tail(entries), now)

\* main.py:205-213, for one label
RECURSIVE WeeklySec(_, _, _)
WeeklySec(entries, label, now) ==
    IF Len(entries) = 0 THEN 0
    ELSE LET e == Head(entries)
             duration_sec == calculate_duration(e, now)
         IN  (IF label \in Get(e, "tags", {}) THEN duration_sec ELSE 0)
             + WeeklySec(Tail(entries), label, now)

\* seconds / 60, in units of 1/MinUnit minute
ToMinutes(sec) == sec * (MinUnit \div SecPerMin)

\* an integer number of minutes in the same units
WholeMinutes(m) == m * MinUnit

\* main.py:183-185 without the early return: the gate lets every sum through
DailyGateDeniesNever(focus_sec) == FALSE

\* main.py:183 with <= in place of <
DailyGateDeniesLoose(focus_sec) == ToMinutes(focus_sec) <= WholeMinutes(FocusGateMin)

\* main.py:183  todays_focus_duration_min < 90
DailyGateDenies(focus_sec) == ToMinutes(focus_sec) < WholeMinutes(FocusGateMin)

\* main.py:221  threshold = total_focus_min * 0.5
Threshold(focus_sec) == ToMinutes(focus_sec) \div HalfDivisor

\* main.py:222  potential_total_play = total_play_min + requested_play_time_min
PotentialTotalPlay(play_sec, requested) == ToMinutes(play_sec) + WholeMinutes(requested)

\* main.py:225 with the comparison turned round
WeeklyGateDeniesReversed(focus_sec, play_sec, requested) ==
    PotentialTotalPlay(play_sec, requested) < Threshold(focus_sec)

\* main.py:225 comparing total_play_min alone, the request left out
WeeklyGateDeniesIgnoringRequest(focus_sec, play_sec, requested) ==
    ToMinutes(play_sec) > Threshold(focus_sec)

\* main.py:225 with >= in place of >
WeeklyGateDeniesLoose(focus_sec, play_sec, requested) ==
    PotentialTotalPlay(play_sec, requested) >= Threshold(focus_sec)

\* main.py:225  potential_total_play > threshold
WeeklyGateDenies(focus_sec, play_sec, requested) ==
    PotentialTotalPlay(play_sec, requested) > Threshold(focus_sec)

\* main.py:167-170, 199-202: None and any non-list become []
EntriesOrEmpty(value) == IF value.type = "list" THEN value.items ELSE << >>

---------------------------------------------------------------------------
(* The handler, one action per block of check_play_time_allowance *)

\* main.py:137-149: the two window starts, as UTC instants
Windows(tz, now) ==
    LET now_local == DatetimeNow(tz, now)
    IN  [today |-> AsUtc(Today4amLocal(now_local)),
         week  |-> AsUtc(StartOfWeekLocal(now_local))]

\* one outbound request and what the upstream did with it
Call(endpoint, params, outcome) ==
    [endpoint |-> endpoint, params |-> params, result |-> outcome.kind,
     payload |-> IF outcome.kind = "ok" THEN outcome.json.type ELSE "none"]
NoParams == [none |-> TRUE]

\* main.py:103-108
SecretRejects(expected_secret, received_secret) ==
    expected_secret # "" /\ received_secret # expected_secret

\* main.py:117 without the sign test
InputRejectsLoose(parsed) == ~parsed.ok

\* main.py:117  requested_play_time_min is None or requested_play_time_min < 0
InputRejects(parsed) == IF parsed.ok THEN parsed.val < 0 ELSE TRUE

Init ==
    /\ pc = "start"
    /\ env_secret \in EnvSecrets
    /\ request \in [secret : HeaderSecrets, args : QueryArgs]
    /\ requested_play_time_min = [ok |-> FALSE]
    /\ now_utc = 0
    /\ user_tz = ""
    /\ today_4am_utc = 0
    /\ start_of_week_utc = 0
    /\ todays_entries = << >>
    /\ weekly_entries = << >>
    /\ todays_focus_sec = 0
    /\ total_focus_sec = 0
    /\ total_play_sec = 0
    /\ response = NoResponse
    /\ fetch_log = << >>
    /\ gate1 = "none"
    /\ substituted = FALSE
    /\ entry = [duration |-> 0]
    /\ duration = 0

\* main.py:102-110
CheckSecret ==
    /\ pc = "start"
    /\ IF SecretRejects(env_secret, request.secret)
       THEN /\ response' = [status |-> 403, body |-> [error |-> "Unauthorized"]]
            /\ pc' = "done"
       ELSE /\ pc' = "validate"
            /\ UNCHANGED response
    /\ UNCHANGED <<env_secret, request, requested_play_time_min, now_utc, user_tz,
                   today_4am_utc, start_of_week_utc, todays_entries, weekly_entries,
                   todays_focus_sec, total_focus_sec, total_play_sec,
                   fetch_log, gate1, substituted, entry, duration>>

\* main.py:114-124
ValidateInput ==
    /\ pc = "validate"
    /\ requested_play_time_min' = ArgsGetInt(request.args, "play_time")
    /\ IF InputRejects(requested_play_time_min')
       THEN /\ response' = [status |-> 400,
                            body |-> [error |-> "Missing or invalid 'play_time' query parameter"]]
            /\ pc' = "done"
       ELSE /\ pc' = "user_info"
            /\ UNCHANGED response
    /\ UNCHANGED <<env_secret, request, now_utc, user_tz,
                   today_4am_utc, start_of_week_utc, todays_entries, weekly_entries,
                   todays_focus_sec, total_focus_sec, total_play_sec,
                   fetch_log, gate1, substituted, entry, duration>>

\* main.py:126-160
GetUserInfo ==
    /\ pc = "user_info"
    /\ \E outcome \in Outcomes(MePayloads), now \in HandlerNows :
         LET got == get_toggl_data(outcome)
             tzname == IF got.raised = "" THEN Get(got.value, "timezone", "") ELSE ""
         IN  /\ fetch_log' = Append(fetch_log, Call("/me", NoParams, outcome))
             /\ IF got.raised # ""
                THEN /\ response' = Failed("Failed to initialize", got.raised)
                     /\ pc' = "done"
                     /\ UNCHANGED <<user_tz, now_utc, today_4am_utc, start_of_week_utc>>
                ELSE IF got.value.type # "object"
                THEN \* user_info.get on a non-dict raises AttributeError
                     /\ response' = Failed("Failed to initialize", "AttributeError")
                     /\ pc' = "done"
                     /\ UNCHANGED <<user_tz, now_utc, today_4am_utc, start_of_week_utc>>
                ELSE IF tzname = ""
                THEN /\ response' = [status |-> 500,
                                     body |-> [error |-> "Configuration error: Failed to get user timezone"]]
                     /\ pc' = "done"
                     /\ user_tz' = tzname
                     /\ UNCHANGED <<now_utc, today_4am_utc, start_of_week_utc>>
                ELSE IF tzname \notin ZoneNames
                THEN \* pytz.UnknownTimeZoneError
                     /\ response' = [status |-> 500,
                                     body |-> [error |-> "Configuration error: Invalid timezone received"]]
                     /\ pc' = "done"
                     /\ user_tz' = tzname
                     /\ UNCHANGED <<now_utc, today_4am_utc, start_of_week_utc>>
                ELSE /\ user_tz' = tzname
                     /\ now_utc' = now
                     /\ today_4am_utc' = Windows(tzname, now).today
                     /\ start_of_week_utc' = Windows(tzname, now).week
                     /\ pc' = "today"
                     /\ UNCHANGED response
    /\ UNCHANGED <<env_secret, request, requested_play_time_min,
                   todays_entries, weekly_entries,
                   todays_focus_sec, total_focus_sec, total_play_sec,
                   gate1, substituted, entry, duration>>

\* main.py:230: the message names the requested minutes
PermittedBody(requested) ==
    [allowed |-> TRUE,
     message |-> [text |-> "A play time of {} minutes is permitted", minutes |-> requested]]

\* main.py:185
DeniedFocusBody ==
    [allowed |-> FALSE,
     message |-> [text |-> "Not enough focus has done today to earn you the right to play"]]

\* main.py:227
DeniedWeeklyBody ==
    [allowed |-> FALSE, message |-> [text |-> "Too much play time this week"]]

\* main.py:162-192
TodayCheck ==
    /\ pc = "today"
    /\ \E outcome \in Outcomes(EntriesPayloads) :
         LET got == get_toggl_data(outcome)
             params_today == [start_date |-> today_4am_utc, end_date |-> now_utc]
             entries == EntriesOrEmpty(got.value)
             focus_sec == TodaysFocusSec(entries, now_utc)
         IN  /\ fetch_log' = Append(fetch_log, Call("/me/time_entries", params_today, outcome))
             /\ IF got.raised # ""
                THEN /\ response' = Failed("Failed processing today's entries", got.raised)
                     /\ pc' = "done"
                     /\ UNCHANGED <<todays_entries, todays_focus_sec, gate1, substituted>>
                ELSE /\ todays_entries' = entries
                     /\ substituted' = (substituted \/ got.value.type = "object")
                     /\ todays_focus_sec' = focus_sec
                     /\ IF DailyGateDenies(focus_sec)
                        THEN /\ response' = Ok(DeniedFocusBody)
                             /\ gate1' = "denied"
                             /\ pc' = "done"
                        ELSE /\ gate1' = "passed"
                             /\ pc' = "weekly"
                             /\ UNCHANGED response
    /\ UNCHANGED <<env_secret, request, requested_play_time_min, now_utc, user_tz,
                   today_4am_utc, start_of_week_utc, weekly_entries,
                   total_focus_sec, total_play_sec, entry, duration>>

\* main.py:194-235
WeeklyCheck ==
    /\ pc = "weekly"
    /\ \E outcome \in Outcomes(EntriesPayloads) :
         LET got == get_toggl_data(outcome)
             params_week == [start_date |-> start_of_week_utc, end_date |-> now_utc]
             entries == EntriesOrEmpty(got.value)
             focus_sec == WeeklySec(entries, FocusLabel, now_utc)
             play_sec == WeeklySec(entries, PlayLabel, now_utc)
         IN  /\ fetch_log' = Append(fetch_log, Call("/me/time_entries", params_week, outcome))
             /\ pc' = "done"
             /\ IF got.raised # ""
                THEN /\ response' = Failed("Failed processing weekly entries", got.raised)
                     /\ UNCHANGED <<weekly_entries, total_focus_sec, total_play_sec, substituted>>
                ELSE /\ weekly_entries' = entries
                     /\ substituted' = (substituted \/ got.value.type = "object")
                     /\ total_focus_sec' = focus_sec
                     /\ total_play_sec' = play_sec
                     /\ response' =
                          IF WeeklyGateDenies(focus_sec, play_sec, requested_play_time_min.val)
                          THEN Ok(DeniedWeeklyBody)
                          ELSE Ok(PermittedBody(requested_play_time_min.val))
    /\ UNCHANGED <<env_secret, request, requested_play_time_min, now_utc, user_tz,
                   today_4am_utc, start_of_week_utc, todays_entries,
                   todays_focus_sec, gate1, entry, duration>>

Next == CheckSecret \/ ValidateInput \/ GetUserInfo \/ TodayCheck \/ WeeklyCheck

Spec == Init /\ [][Next]_vars

---------------------------------------------------------------------------
(* Vocabulary of the properties of the handler *)

Done == pc = "done"
Decision == "allowed" \in DOMAIN response.body
Permitted == Decision /\ response.body.allowed
DeniedFocus == response = Ok(DeniedFocusBody)
DeniedWeekly == response = Ok(DeniedWeeklyBody)

IsTodayCall(c) ==
    c.endpoint = "/me/time_entries" /\ c.params.start_date = today_4am_utc
IsWeekCall(c) ==
    c.endpoint = "/me/time_entries" /\ c.params.start_date = start_of_week_utc

\* today's entries were fetched and summed; the week's entries were fetched;
\* the week's entries were fetched and summed
TodaySummed ==
    \E i \in DOMAIN fetch_log : IsTodayCall(fetch_log[i]) /\ fetch_log[i].result = "ok"
WeeklyFetched == \E i \in DOMAIN fetch_log : IsWeekCall(fetch_log[i])
WeeklySummed ==
    \E i \in DOMAIN fetch_log : IsWeekCall(fetch_log[i]) /\ fetch_log[i].result = "ok"

\* the instant an ISO-8601 start text denotes: "Z" and no suffix mean UTC
StartParses(e) == "start" \in DOMAIN e /\ e.start.kind = "iso"
StartInstant(e) ==
    e.start.wall - (IF e.start.sfx \in {"Z", ""} THEN 0 ELSE SuffixOffset(e.start.sfx))

\* the resolved duration of an entry as the specification words it
RefDuration(e, now) ==
    LET d == IF "duration" \in DOMAIN e THEN e.duration ELSE 0
    IN  IF d >= 0 THEN d
        ELSE IF StartParses(e) THEN Max(0, now - StartInstant(e))
        ELSE 0

Tagged(e, label) == "tags" \in DOMAIN e /\ label \in e.tags

\* the sum of the resolved durations of the entries carrying a label
RECURSIVE RefSum(_, _, _, _)
RefSum(entries, label, now, n) ==
    IF n = 0 THEN 0
    ELSE RefSum(entries, label, now, n - 1)
         + (IF Tagged(entries[n], label) THEN RefDuration(entries[n], now) ELSE 0)

RefTodayFocus == RefSum(todays_entries, FocusLabel, now_utc, Len(todays_entries))
RefWeekFocus  == RefSum(weekly_entries, FocusLabel, now_utc, Len(weekly_entries))
RefWeekPlay   == RefSum(weekly_entries, PlayLabel, now_utc, Len(weekly_entries))

Requested == requested_play_time_min.val

---------------------------------------------------------------------------
(* C1 *)

\* C1: the two gates run in order.  Once today's entries are summed and the
\* sum is below 90 minutes, the run has ended with the "not enough focus"
\* denial and the week's entries were neither fetched nor aggregated; the
\* weekly fetch appears only after a today's fetch whose sum passed the gate.
C1_GatesInOrder ==
    /\ (TodaySummed /\ RefTodayFocus < FocusGateMin * SecPerMin)
         => /\ Done /\ DeniedFocus
            /\ ~WeeklyFetched
            /\ weekly_entries = << >> /\ total_focus_sec = 0 /\ total_play_sec = 0
    /\ \A j \in DOMAIN fetch_log :
         IsWeekCall(fetch_log[j])
           => /\ RefTodayFocus >= FocusGateMin * SecPerMin
              /\ \E i \in 1..(j - 1) :
                   IsTodayCall(fetch_log[i]) /\ fetch_log[i].result = "ok"

\* a run that summed 45 minutes of focus today and stopped at the daily gate
C1_Witness ==
    /\ Done /\ TodaySummed /\ DeniedFocus
    /\ RefTodayFocus = 45 * SecPerMin
    /\ Len(fetch_log) = 2

---------------------------------------------------------------------------
(* C2 *)

---------------------------------------------------------------------------
(* C3 *)

\* C3: when stage 1 passed and the week's entries are summed, the decision
\* is the weekly denial exactly when total_play + requested > 0.5 *
\* total_focus (here doubled, in seconds), and Permitted otherwise.
C3_WeeklyGate ==
    (gate1 = "passed" /\ WeeklySummed) =>
        /\ Done /\ Decision
        /\ total_focus_sec = RefWeekFocus /\ total_play_sec = RefWeekPlay
        /\ DeniedWeekly <=>
             (2 * (RefWeekPlay + Requested * SecPerMin) > RefWeekFocus)
        /\ Permitted <=> ~DeniedWeekly

\* focus 600 min, play 250 min, request 50 min: projected = limit, Permitted
C3_Witness ==
    /\ Done /\ Permitted
    /\ total_focus_sec = 600 * SecPerMin
    /\ total_play_sec = 250 * SecPerMin
    /\ Requested = 50

---------------------------------------------------------------------------
(* C4 *)

\* the decision of a whole evaluation as a function of its inputs
Evaluate(requested, today, week, now) ==
    IF DailyGateDenies(TodaysFocusSec(today, now)) THEN "denied_focus"
    ELSE IF WeeklyGateDenies(WeeklySec(week, FocusLabel, now),
                             WeeklySec(week, PlayLabel, now), requested)
    THEN "denied_weekly"
    ELSE "permitted"

\* the requests a finished evaluation is compared with
RequestsTried == {0, 1, 5, 25, 45, 46, 49, 50, 51, 52, 300}

\* C4: with the entries and now of a finished evaluation held fixed, the
\* evaluation agrees with Evaluate, and for all requests r1 <= r2, Permitted
\* for r2 implies Permitted for r1.
C4_Monotone ==
    (Done /\ Decision /\ (gate1 = "denied" \/ WeeklySummed)) =>
        LET tried == RequestsTried \cup {Requested}
            permitted == { r \in tried :
                Evaluate(r, todays_entries, weekly_entries, now_utc) = "permitted" }
        IN  /\ Permitted <=> (Requested \in permitted)
            /\ \A r2 \in permitted : \A r1 \in tried : (r1 <= r2) => (r1 \in permitted)

\* a Denied run (request 51) whose entries permit a smaller request (50)
C4_Witness ==
    /\ Done /\ DeniedWeekly /\ Requested = 51
    /\ Evaluate(50, todays_entries, weekly_entries, now_utc) = "permitted"

---------------------------------------------------------------------------
(* C5 *)

AggregateKeys == {"total_focus_minutes", "total_play_minutes", "limit", "remaining"}

---------------------------------------------------------------------------
(* C9 *)

\* play_time is missing, not an integer, or negative
InvalidPlayTime ==
    \/ "play_time" \notin DOMAIN request.args
    \/ ~IntOf(request.args.play_time).ok
    \/ IntOf(request.args.play_time).val < 0

InputError == response.status = 400 /\ "error" \in DOMAIN response.body

\* C9 as stated: a finished run whose play_time is invalid ended with the
\* input error, made no fetch and produced no decision; a run that fetched
\* has a non-negative integer request.
C9_AsStated ==
    /\ (Done /\ InvalidPlayTime) => (InputError /\ fetch_log = << >> /\ ~Decision)
    /\ (fetch_log # << >>) => (requested_play_time_min.ok /\ Requested >= 0)

\* C9 amended: a run whose play_time is invalid never fetches and never
\* decides; it ends with the input error (400) when the function-secret check
\* lets the request through, and with Unauthorized (403) when it does not.  A
\* run that fetched has a non-negative integer request.
C9_Amended ==
    /\ InvalidPlayTime => (fetch_log = << >> /\ ~Decision /\ pc \in {"start", "validate", "done"})
    /\ (Done /\ InvalidPlayTime) =>
         IF env_secret # "" /\ request.secret # env_secret
         THEN response = [status |-> 403, body |-> [error |-> "Unauthorized"]]
         ELSE InputError
    /\ (fetch_log # << >>) =>
         (~InvalidPlayTime /\ requested_play_time_min.ok /\ Requested >= 0
            /\ Requested = IntOf(request.args.play_time).val)

\* an authorized request with play_time=-5, rejected with the input error
C9_Witness ==
    /\ Done /\ InputError /\ fetch_log = << >>
    /\ env_secret = "s3cret" /\ request.secret = "s3cret"
    /\ request.args = [play_time |-> <<"-", "5">>]

---------------------------------------------------------------------------
(* C10 *)

ConfigError ==
    /\ response.status = 500
    /\ response.body = [error |-> "Configuration error: Invalid timezone received"]

FailedLabels == {"Failed to initialize", "Failed processing today's entries",
                 "Failed processing weekly entries"}

\* the i-th fetch failed in get_toggl_data
FetchFailed(i) == fetch_log[i].result \in FailureKinds

UnknownTimezone == user_tz # "" /\ user_tz \notin ZoneNames

NoRetry ==
    /\ Len(fetch_log) <= 3
    /\ \A i, j \in DOMAIN fetch_log :
         (i # j) => (fetch_log[i].endpoint # fetch_log[j].endpoint
                       \/ fetch_log[i].params # fetch_log[j].params)
    /\ \A i \in DOMAIN fetch_log : FetchFailed(i) => (i = Len(fetch_log))

\* C10 as stated: an unknown timezone ends the run with the configuration
\* error; a failed fetch ends it with a connectivity error (502); nothing is
\* retried; and no run in which the upstream failed to deliver returns a
\* decision, in particular none computed from a substituted empty list.
C10_AsStated ==
    /\ UnknownTimezone => (Done /\ ConfigError /\ ~Decision)
    /\ \A i \in DOMAIN fetch_log :
         FetchFailed(i) => (Done /\ response.status = 502 /\ ~ConfigError /\ ~Decision)
    /\ NoRetry
    /\ substituted => ~Decision

\* C10 amended: an unknown timezone ends the run with the configuration
\* error; a fetch failing with an HTTP error status or a requests exception
\* ends it with a 502 error, and one failing with any other exception with a
\* 500 "Failed ..." error that differs from the configuration error; nothing
\* is retried and none of these runs returns a decision.  An entries payload
\* that is not a list is not a failure: it is replaced by an empty list and
\* the run goes on to its decision.
C10_Amended ==
    /\ UnknownTimezone => (Done /\ ConfigError /\ ~Decision /\ Len(fetch_log) = 1)
    /\ \A i \in DOMAIN fetch_log :
         FetchFailed(i) =>
           /\ Done /\ ~Decision /\ ~ConfigError
           /\ response.body.error \in FailedLabels
           /\ response.status =
                IF fetch_log[i].result = "unexpected" THEN 500 ELSE 502
    /\ NoRetry
    /\ (substituted /\ Done /\ ~FetchFailed(Len(fetch_log))) => Decision
    /\ (substituted /\ todays_entries = << >> /\ gate1 # "none") => gate1 = "denied"

\* a run whose weekly fetch failed with an HTTP error after the daily gate passed
C10_Witness ==
    /\ Done /\ gate1 = "passed" /\ Len(fetch_log) = 3
    /\ fetch_log[3].result = "http_error"
    /\ response.status = 502

---------------------------------------------------------------------------
(* Resolver runs: calculate_duration applied to one entry *)

DurStarts ==
    { [kind |-> "null"], [kind |-> "empty"], [kind |-> "garbage"] }
      \cup { [kind |-> "iso", wall |-> w, sfx |-> x] :
               w \in {9 * Day, 9 * Day + 2 * Hour, 9 * Day + 9 * Hour},
               x \in {"Z", "+00:00", "+08:00", "-05:00", ""} }

DurDurations == {-100, -1, 0, 1, 45 * SecPerMin}

DurEntries ==
    { [duration |-> d, start |-> st] : d \in DurDurations, st \in DurStarts }
      \cup { [duration |-> d] : d \in DurDurations }
      \cup { [start |-> st] : st \in DurStarts }

DurNows == {9 * Day + 1, 9 * Day + 2 * Hour, 9 * Day + 5 * Hour}

InitDur ==
    /\ pc = "resolve"
    /\ entry \in DurEntries
    /\ now_utc \in DurNows
    /\ duration = 0
    /\ env_secret = ""
    /\ request = [secret |-> "", args |-> [other |-> <<"1">>]]
    /\ requested_play_time_min = [ok |-> FALSE]
    /\ user_tz = ""
    /\ today_4am_utc = 0
    /\ start_of_week_utc = 0
    /\ todays_entries = << >>
    /\ weekly_entries = << >>
    /\ todays_focus_sec = 0
    /\ total_focus_sec = 0
    /\ total_play_sec = 0
    /\ response = NoResponse
    /\ fetch_log = << >>
    /\ gate1 = "none"
    /\ substituted = FALSE

\* main.py:177, 209: one call of calculate_duration
Resolve ==
    /\ pc = "resolve"
    /\ duration' = calculate_duration(entry, now_utc)
    /\ pc' = "resolved"
    /\ UNCHANGED <<env_secret, request, requested_play_time_min, now_utc, user_tz,
                   today_4am_utc, start_of_week_utc, todays_entries, weekly_entries,
                   todays_focus_sec, total_focus_sec, total_play_sec, response,
                   fetch_log, gate1, substituted, entry>>

SpecDur == InitDur /\ [][Resolve]_vars

\* C6: calculate_duration returns entry.duration when it is >= 0, whatever
\* now is; max(0, now - start) when it is negative and start parses; 0 when
\* it is negative and start is missing or unparseable; never a negative value.
C6_Resolver ==
    (pc = "resolved") =>
        /\ duration = RefDuration(entry, now_utc)
        /\ duration >= 0
        /\ ("duration" \in DOMAIN entry /\ entry.duration >= 0) => duration = entry.duration
        /\ (Get(entry, "duration", 0) < 0 /\ ~StartParses(entry)) => duration = 0

\* a running entry started at 02:00+08:00, resolved at 02:00Z: eight hours
C6_Witness ==
    /\ pc = "resolved"
    /\ entry = [duration |-> -1,
                start |-> [kind |-> "iso", wall |-> 9 * Day + 2 * Hour, sfx |-> "+08:00"]]
    /\ now_utc = 9 * Day + 2 * Hour
    /\ duration = 8 * Hour

---------------------------------------------------------------------------
(* Window runs: the two window starts for a zone and an instant *)

WindowNows ==
    { (8 + d) * Day + h * Hour + s :
        d \in 0..MaxDays, h \in 0..23, s \in {0, 60, 59 * 60, 59 * 60 + 59} }

InitWin ==
    /\ pc = "window"
    /\ user_tz \in ZoneNames
    /\ now_utc \in WindowNows
    /\ today_4am_utc = 0
    /\ start_of_week_utc = 0
    /\ entry = [duration |-> 0]
    /\ duration = 0
    /\ env_secret = ""
    /\ request = [secret |-> "", args |-> [other |-> <<"1">>]]
    /\ requested_play_time_min = [ok |-> FALSE]
    /\ todays_entries = << >>
    /\ weekly_entries = << >>
    /\ todays_focus_sec = 0
    /\ total_focus_sec = 0
    /\ total_play_sec = 0
    /\ response = NoResponse
    /\ fetch_log = << >>
    /\ gate1 = "none"
    /\ substituted = FALSE

\* main.py:137-149
ComputeWindows ==
    /\ pc = "window"
    /\ today_4am_utc' = Windows(user_tz, now_utc).today
    /\ start_of_week_utc' = Windows(user_tz, now_utc).week
    /\ pc' = "windowed"
    /\ UNCHANGED <<env_secret, request, requested_play_time_min, now_utc, user_tz,
                   todays_entries, weekly_entries,
                   todays_focus_sec, total_focus_sec, total_play_sec, response,
                   fetch_log, gate1, substituted, entry, duration>>

SpecWin == InitWin /\ [][ComputeWindows]_vars

\* what a clock in the zone reads at UTC instant u
LocalReading(tz, u) == u + OffsetAt(tz, u)

\* the local calendar day of now, and its local time of day
LocalDay == LocalReading(user_tz, now_utc) \div Day
LocalTime == LocalReading(user_tz, now_utc) % Day

\* C7: today_window.start is local 04:00:00 of the current local day when the
\* local time is 04:00 or later and of the previous day when it is earlier;
\* it is not after now and less than 24 hours before it.
C7_TodayWindow ==
    (pc = "windowed") =>
        /\ LocalReading(user_tz, today_4am_utc) =
             (IF LocalTime >= BoundaryHour * Hour THEN LocalDay ELSE LocalDay - 1) * Day
               + BoundaryHour * Hour
        /\ today_4am_utc <= now_utc
        /\ now_utc - today_4am_utc < Day

\* C8: week_window.start is local 00:00:00 of the most recent Monday on or
\* before the current local date; it is a Monday, not after now and less
\* than 7 days before it.
C8_WeekWindow ==
    (pc = "windowed") =>
        /\ LocalReading(user_tz, start_of_week_utc) = (LocalDay - (LocalDay % 7)) * Day
        /\ (LocalReading(user_tz, start_of_week_utc) \div Day) % 7 = 0
        /\ start_of_week_utc <= now_utc
        /\ now_utc - start_of_week_utc < 7 * Day

\* the same two statements for the zones whose offset never changes
FixedZones == {"UTC", "Asia/Shanghai"}
C7_FixedOffset == (user_tz \in FixedZones) => C7_TodayWindow
C8_FixedOffset == (user_tz \in FixedZones) => C8_WeekWindow

=============================================================================
